---- MODULE Spec2Model ----
(***************************************************************************)
(* A model of the flightCrashData2025 harvesting pipeline:                 *)
(*   - ASN_scraping/scraper.py   : the listing-source driver (scrape_year, *)
(*                                 main, save_to_json)                     *)
(*   - NTSB_scraping/script.py   : the API-source driver (download_month,  *)
(*                                 download_all), run repeatedly           *)
(*   - TL/load_staging.py        : the staging loader (load_source1..3,    *)
(*                                 commit), invoked repeatedly             *)
(* The three programs are separate scripts; `prog` says which one the      *)
(* operator launched.                                                      *)
(***************************************************************************)
EXTENDS Integers, Sequences, FiniteSets, TLC

VARIABLES
    prog,            \* which script or function is run: "asn", "ntsb", "load",
                     \* "parse" (_parse_accident_detail), "country" (_extract_country),
                     \* "merge" (merge_extracted_json.py)
    \* ---- ASN_scraping/scraper.py ----
    asn_pc,          \* position in main / scrape_year
    asn_run,         \* how many sessions (runs of main) have started
    years,           \* main: years, the configured list
    year_i,          \* main: position of `year` in years (0 before the loop)
    page_number,     \* scrape_year: page_number
    accident_urls,   \* scrape_year: accident_urls of the current listing page
    url_i,           \* scrape_year: index of the next detail url (enumerate)
    all_accidents,   \* scrape_year: all_accidents
    asn_response,    \* the response the site gave to the last request
    asn_log,         \* history: every request issued, in order
    asn_error,       \* the exception main caught at line 299 for `year`, or "none"
    asn_artifact,    \* year -> file aviation_accidents_<year>.json (NoFile or content)
    asn_printed,     \* the "Error scraping year" lines printed in this session
    asn_before,      \* history: asn_artifact when the session started
    asn_fetched,     \* history: the years requested from the site in this session
    asn_saved,       \* history: the years whose artifact this session wrote
    asn_rows,        \* history: the table rows the site has served, in all
    \* ---- scraper.py: one call of _parse_accident_detail / _extract_country ----
    pr_pc,           \* position in the call
    soup,            \* the parsed detail page
    row_i,           \* _parse_accident_detail: index of the next row of the table
    pr_accident_data,\* _parse_accident_detail: accident_data
    location_text,   \* _extract_country: location_text
    country,         \* _extract_country: the value returned
    \* ---- NTSB_scraping/script.py ----
    nt_pc,           \* position in __main__ / download_all
    nt_run,          \* how many runs of the script have started
    start_year,      \* download_all: start_year
    end_year,        \* download_all: end_year
    current_date,    \* download_all: current_date, <<year, month>>
    nt_year,         \* download_all: year
    nt_month,        \* download_all: month
    total,           \* download_all: total
    successful,      \* download_all: successful
    failed,          \* download_all: failed
    nt_files,        \* output_dir: window -> NoFile or the content of its zip
    nt_printed,      \* the "Failed" lines printed by download_month, this run
    nt_slept,        \* has time.sleep(delay) run since the last request of the run
    nt_log,          \* history: the windows visited in this run, in order
    nt_hist,         \* history over all runs, per window: writes, successes
    \* ---- NTSB_scraping/merge_extracted_json.py ----
    mg_pc,           \* position in the script
    mg_run,          \* how many runs of the script have started
    extracted_dir,   \* the directory: file name -> NoFile or the file's content
    json_files,      \* json_files
    mg_i,            \* index in json_files of the next json_file
    all_cases,       \* all_cases
    total_records,   \* total_records
    mg_printed,      \* the total printed at line 44 ("Merged N total records")
    mg_before,       \* history: extracted_dir when the run started
    \* ---- TL/load_staging.py ----
    ld_pc,           \* position in __main__
    ld_run,          \* how many invocations of the loader have started
    key_mode,        \* schema of source_unique_id: "PRIMARY KEY" or "UNIQUE"
    ld_disk,         \* the input files ASN.json, NTSB.json, CSV.csv
    ld_tables,       \* the staging tables as the open transaction sees them
    ld_committed,    \* the staging tables as committed (durable)
    ld_before,       \* history: ld_committed when the invocation started
    ld_files,        \* history: the file each load of this invocation read
    ld_last,         \* history: the files read by the committed invocation before
    ld_printed,      \* the "Loaded N rows" count printed per source
    ld_error,        \* the exception that ended the invocation, or "none"
    ld_budget        \* records the environment may still write into input files

asn_vars == <<asn_pc, asn_run, years, year_i, page_number, accident_urls,
              url_i, all_accidents, asn_response, asn_log, asn_error,
              asn_artifact, asn_printed, asn_before, asn_fetched, asn_saved,
              asn_rows>>

pr_vars == <<pr_pc, soup, row_i, pr_accident_data, location_text, country>>

nt_vars == <<nt_pc, nt_run, start_year, end_year, current_date, nt_year,
             nt_month, total, successful, failed, nt_files, nt_printed,
             nt_slept, nt_log, nt_hist>>

mg_vars == <<mg_pc, mg_run, extracted_dir, json_files, mg_i, all_cases,
             total_records, mg_printed, mg_before>>

ld_vars == <<ld_pc, ld_run, key_mode, ld_disk, ld_tables, ld_committed,
             ld_before, ld_files, ld_last, ld_printed, ld_error, ld_budget>>

vars == <<prog, asn_vars, pr_vars, nt_vars, mg_vars, ld_vars>>

----------------------------------------------------------------------------
(* Bounds of the model *)

\* the site serves at most MaxPages listing pages of a year that carry links
MaxPages == 2
\* the listing pages served carry at most MaxLinks table rows in all
MaxLinks == 2
\* each harvesting script is run at most MaxRuns times
MaxRuns == 2
\* at most MaxFailures export requests fail, over all runs
MaxFailures == 1
\* the loader is invoked at most MaxLoads times
MaxLoads == 2
\* the input files receive at most MaxRecs records in all
MaxRecs == 2
\* the table of a detail page has at most MaxRows rows
MaxRows == 2
\* a location text has at most MaxText characters
MaxText == 4
\* an extracted file holds at most MaxCases records
MaxCases == 5

----------------------------------------------------------------------------
(* Values shared by the programs *)

\* Python's None
None == [type |-> "None"]
\* Python's empty string (a 200 response with an empty body)
EmptyStr == [type |-> "str", text |-> ""]
\* a path that does not exist on disk
NoFile == [type |-> "NoFile"]

RECURSIVE SelectIdx(_, _)
\* the indices i of sequence s, in order, whose element satisfies s[i].keep
SelectIdx(s, n) ==
    IF n = 0 THEN <<>>
    ELSE IF s[n].keep THEN Append(SelectIdx(s, n - 1), n) ELSE SelectIdx(s, n - 1)

----------------------------------------------------------------------------
(* Text: a str is the sequence of its characters *)

\* str.strip(), for the whitespace character " "
RECURSIVE LStrip(_)
LStrip(s) == IF s # <<>> /\ Head(s) = " " THEN LStrip(Tail(s)) ELSE s

RECURSIVE RStrip(_)
RStrip(s) ==
    IF s # <<>> /\ s[Len(s)] = " " THEN RStrip(SubSeq(s, 1, Len(s) - 1)) ELSE s

Strip(s) == RStrip(LStrip(s))

\* `sep in s`
In(sep, s) == \E i \in 1..Len(s) : s[i] = sep

RECURSIVE Split(_, _)
\* s.split(sep) for a one-character separator: the list of the parts
Split(s, sep) ==
    IF ~In(sep, s) THEN <<s>>
    ELSE LET i == CHOOSE k \in 1..Len(s) :
                      s[k] = sep /\ \A m \in 1..(k - 1) : s[m] # sep
         IN  <<SubSeq(s, 1, i - 1)>> \o Split(SubSeq(s, i + 1, Len(s)), sep)

\* a str value of accident_data
Str(s) == [str |-> s]

----------------------------------------------------------------------------
(* ASN_scraping/scraper.py: _extract_country and _parse_accident_detail *)

\* a cell without <a>
NoLink == [type |-> "NoLink"]
\* a page without the caption looked for
NoTag == [type |-> "NoTag"]

\* the keywords of the elif chain of lines 139-170, in the order of the
\* chain, and the key of accident_data each one sets
Keywords ==
    <<"date", "time", "type", "owner/operator", "registration", "msn",
      "year of manufacture", "fatalities", "aircraft damage", "location",
      "phase", "nature", "departure airport", "destination airport",
      "confidence rating">>

Fields ==
    <<"date", "time", "type", "owner_operator", "registration", "msn",
      "year_of_manufacture", "fatalities", "aircraft_damage", "location",
      "phase", "nature", "departure_airport", "destination_airport",
      "confidence_rating">>

\* captions of table rows, as line 136 leaves them (stripped, without ':',
\* lower-cased): the labels of the fields and other labels a page can carry
Captions ==
    {"date", "time", "type", "owner/operator", "registration", "msn",
     "year of manufacture", "fatalities", "aircraft damage", "location",
     "phase", "nature", "departure airport", "destination airport",
     "confidence rating", "other fatalities", "aircraft type",
     "engine model", "last updated", "date/time"}

\* the words tested by the chain ('date' ... 'confidence rating', 'aircraft',
\* 'other') that occur in a caption as substrings
Substrings(caption) ==
    CASE caption = "aircraft damage"  -> {"aircraft damage", "aircraft"}
      [] caption = "other fatalities" -> {"fatalities", "other"}
      [] caption = "aircraft type"    -> {"type", "aircraft"}
      [] caption = "engine model"     -> {}
      [] caption = "last updated"     -> {"date"}
      [] caption = "date/time"        -> {"date", "time"}
      [] OTHER                        -> {caption}

\* `word in caption`
Contains(caption, word) == word \in Substrings(caption)

\* the condition of the k-th branch of the chain
Branch(k, caption) ==
    /\ Contains(caption, Keywords[k])
    /\ Keywords[k] = "type" => ~Contains(caption, "aircraft")
    /\ Keywords[k] = "fatalities" => ~Contains(caption, "other")

\* a variant of the chain where the last condition that holds wins
LastBranch(caption) ==
    IF \A k \in 1..Len(Keywords) : ~Branch(k, caption) THEN 0
    ELSE CHOOSE k \in 1..Len(Keywords) :
             Branch(k, caption)
             /\ \A m \in (k + 1)..Len(Keywords) : ~Branch(m, caption)

\* the branch of the if/elif chain that is taken for a caption, 0 when none
FirstBranch(caption) ==
    IF \A k \in 1..Len(Keywords) : ~Branch(k, caption) THEN 0
    ELSE CHOOSE k \in 1..Len(Keywords) :
             Branch(k, caption) /\ \A m \in 1..(k - 1) : ~Branch(m, caption)

\* lines 107-113: the country link of the cell next to the first
\* td.caption holding 'Location:', NoLink when there is none
CountryLink(page) ==
    LET located == {i \in 1..Len(page.rows) : page.rows[i].located}
    IN  IF located = {} THEN NoLink
        ELSE LET location_row == CHOOSE i \in located : \A j \in located : i <= j
                 location_cell == page.rows[location_row]
             IN  IF location_cell.cells >= 2 /\ location_cell.link # NoLink
                    /\ location_cell.link.country
                 THEN location_cell.link
                 ELSE NoLink

\* a variant of _extract_country that takes the first part, parts[0]
ExtractCountryFirstPart(text, page) ==
    IF CountryLink(page) # NoLink THEN Strip(CountryLink(page).text)
    ELSE IF In("-", text) THEN Strip(Split(text, "-")[1])
    ELSE Strip(text)

\* _extract_country(location_text, soup)
ExtractCountry(text, page) ==
    IF CountryLink(page) # NoLink THEN Strip(CountryLink(page).text)
    ELSE IF In("-", text)
    THEN LET parts == Split(text, "-")
         IN  IF Len(parts) >= 2 THEN Strip(parts[Len(parts)]) ELSE Strip(text)
    ELSE Strip(text)

\* the value the k-th branch stores for a row (lines 139-170)
BranchValue(k, row, page) ==
    CASE Fields[k] \in {"time", "departure_airport", "destination_airport"} ->
             IF row.value # <<>> THEN Str(row.value) ELSE None
      [] Fields[k] = "type" ->
             IF row.link # NoLink THEN Str(Strip(row.link.text))
             ELSE Str(row.value)
      [] Fields[k] = "location" -> Str(ExtractCountry(row.value, page))
      [] OTHER -> Str(row.value)

\* lines 134-170: one turn of the loop over the rows of the table
ParseRow(data, row, page) ==
    IF row.cells < 2 \/ FirstBranch(row.caption) = 0 THEN data
    ELSE LET k == FirstBranch(row.caption)
         IN  (Fields[k] :> BranchValue(k, row, page)) @@ data

RECURSIVE ParseTable(_, _, _)
\* lines 133-170: the loop over rows[1..n]
ParseTable(data, page, n) ==
    IF n = 0 THEN data
    ELSE ParseRow(ParseTable(data, page, n - 1), page.rows[n], page)

\* lines 172-182: the narrative, from the span that follows the caption
\* or else from the text node that follows it
ParseNarrative(data, page) ==
    IF page.narrative = NoTag THEN data
    ELSE IF page.narrative.span # NoTag
    THEN ("narrative" :> Str(Strip(page.narrative.span.str))) @@ data
    ELSE IF page.narrative.sibling # NoTag
    THEN ("narrative" :> Str(Strip(page.narrative.sibling.str))) @@ data
    ELSE data

\* lines 184-196: the sources, the href (or else the text) of each link
\* that follows the caption
ParseSources(data, page) ==
    IF page.sources = NoTag THEN data
    ELSE ("sources" :> [i \in 1..Len(page.sources.links) |->
                            Strip(page.sources.links[i])]) @@ data

----------------------------------------------------------------------------
(* ASN_scraping/scraper.py: the driver *)

\* main, line 287: the list `years` the operator configures ([2010] as
\* committed; the docstring and the comment name other lists)
YearLists == {<<2010>>, <<2010, 2011>>}
ListingYears == {2010, 2011}

\* hrefs a listing row can carry: an accident link or any other link
Hrefs == {"/wikibase/", "/other/"}

\* bodies of listing pages with at most n rows: the hrefs of the first link
\* of each tr.list row
ListingBodies(n) ==
    {EmptyStr} \cup
    UNION {[type : {"html"}, rows : [1..k -> Hrefs]] : k \in 0..n}

\* bodies of detail pages: with or without a <table>; what the driver does
\* with a page does not depend on what the table holds
DetailBodies ==
    {EmptyStr} \cup
    [type : {"html"}, table : BOOLEAN, rows : {<<>>}, narrative : {NoTag},
     sources : {NoTag}]

\* what the site can answer to a listing request and to a detail request
ListingResponses(n) ==
    [tag : {"Ok"}, body : ListingBodies(n)] \cup
    [tag : {"NotFound", "TransientError"}, body : {EmptyStr}]

DetailResponses ==
    [tag : {"Ok"}, body : DetailBodies] \cup
    [tag : {"NotFound", "TransientError"}, body : {EmptyStr}]

\* an exception leaving a call
Raised == [type |-> "raise"]

\* a variant of _make_request without the handlers of lines 84-88: only a
\* 404 is turned into None
MakeRequestRaising(resp) ==
    IF resp.tag = "Ok" THEN resp.body
    ELSE IF resp.tag = "NotFound" THEN None ELSE Raised

\* _make_request: response.text on success, None on a 404, on any other
\* HTTPError and on any other exception; it never lets an exception out
MakeRequest(resp) ==
    IF resp.tag = "Ok" THEN resp.body ELSE None

\* Python truthiness of an Optional[str]: `if not html`
Falsy(html) == html = None \/ html = EmptyStr

RECURSIVE ParseRows(_, _, _)
\* the loop of _parse_accident_list over rows[1..n] of listing page `page`:
\* a row counts when its link holds '/wikibase/'; the url is named by the
\* page and the row it came from
ParseRows(rows, n, page) ==
    IF n = 0 THEN <<>>
    ELSE IF rows[n] = "/wikibase/"
         THEN Append(ParseRows(rows, n - 1, page), <<page, n>>)
         ELSE ParseRows(rows, n - 1, page)

\* a variant of _parse_accident_list without the '/wikibase/' test
ParseAccidentListAnyLink(html, page) ==
    [i \in 1..Len(html.rows) |-> <<page, i>>]

\* _parse_accident_list(html)
ParseAccidentList(html, page) == ParseRows(html.rows, Len(html.rows), page)

\* _parse_accident_detail(html, url): None without a table, else the record
ParseAccidentDetail(html, url) ==
    IF ~html.table THEN None
    ELSE ParseSources(
             ParseNarrative(
                 ParseTable([url |-> url], html, Len(html.rows)), html), html)

\* the site's view of a listing response: a 404, or a page without any
\* accident link
EndOfData(resp) ==
    \/ resp.tag = "NotFound"
    \/ /\ resp.tag = "Ok"
       /\ \/ resp.body = EmptyStr
          \/ {i \in DOMAIN resp.body.rows : resp.body.rows[i] = "/wikibase/"} = {}

\* the table rows a listing response carries
RowCount(resp) ==
    IF resp.tag = "Ok" /\ resp.body # EmptyStr THEN Len(resp.body.rows) ELSE 0

\* the site's view of a detail response: a page a record can be read from
Parsable(resp) ==
    resp.tag = "Ok" /\ resp.body # EmptyStr /\ resp.body.table

\* a variant of the while loop that skips a listing page it could not fetch
ListingOutcomeSkip(html, urls) ==
    IF html = None THEN "skip"
    ELSE IF Falsy(html) \/ urls = <<>> THEN "break" ELSE "for"

\* scrape_year, lines 221-229: `break` on a falsy html and on an empty url
\* list, else the for loop over the urls
ListingOutcome(html, urls) ==
    IF Falsy(html) \/ urls = <<>> THEN "break" ELSE "for"

\* a variant of main without the try/except: an error ends the session
AfterYearAbort(i, ys, error) ==
    IF error # "none" \/ i >= Len(ys) THEN "done" ELSE "loop"

\* main, lines 289-301: after the body of the for loop, or after the except
\* clause (`continue`), the loop goes on to the next year of the list
AfterYear(i, ys, error) ==
    IF i < Len(ys) THEN "loop" ELSE "done"

\* main, line 300: the line printed by the except clause
ErrorLine(year, error) ==
    IF error = "none" THEN <<>> ELSE <<[year |-> year, error |-> error]>>

\* before the first session: no artifact on disk
AsnInit ==
    /\ asn_pc = "main"
    /\ asn_run = 0
    /\ years \in YearLists
    /\ year_i = 0
    /\ page_number = 0
    /\ accident_urls = <<>>
    /\ url_i = 0
    /\ all_accidents = <<>>
    /\ asn_response = None
    /\ asn_log = <<>>
    /\ asn_error = "none"
    /\ asn_artifact = [y \in ListingYears |-> NoFile]
    /\ asn_printed = <<>>
    /\ asn_before = [y \in ListingYears |-> NoFile]
    /\ asn_fetched = {}
    /\ asn_saved = {}
    /\ asn_rows = 0

\* main, lines 278-289: a session starts (the first, or a restart after the
\* session before ended or was interrupted)
MainStart ==
    /\ prog = "asn"
    /\ asn_pc \in {"main", "done", "killed"}
    /\ asn_run < MaxRuns
    /\ asn_run' = asn_run + 1
    /\ asn_pc' = "loop"
    /\ year_i' = 0
    /\ asn_error' = "none"
    /\ asn_printed' = <<>>
    /\ asn_before' = asn_artifact
    /\ asn_fetched' = {}
    /\ asn_saved' = {}
    /\ asn_log' = <<>>
    \* a new process: nothing is left of the locals of the one before
    /\ all_accidents' = <<>>
    /\ page_number' = 0
    /\ accident_urls' = <<>>
    /\ url_i' = 0
    /\ asn_response' = None
    /\ UNCHANGED <<prog, pr_vars, mg_vars, nt_vars, ld_vars, years, asn_artifact, asn_rows>>

\* main, line 289 and scrape_year, lines 206-208: the next year of the list;
\* session, all_accidents = [], page_number = 1
ScrapeYearStart ==
    /\ prog = "asn"
    /\ asn_pc = "loop"
    /\ year_i < Len(years)
    /\ year_i' = year_i + 1
    /\ asn_pc' = "page"
    /\ all_accidents' = <<>>
    /\ page_number' = 1
    /\ accident_urls' = <<>>
    /\ url_i' = 0
    /\ asn_response' = None
    /\ asn_log' = <<>>
    /\ asn_error' = "none"
    /\ UNCHANGED <<prog, pr_vars, mg_vars, nt_vars, ld_vars, asn_run, years, asn_artifact,
                   asn_printed, asn_before, asn_fetched, asn_saved, asn_rows>>

\* scrape_year, lines 211-231: one turn of the while loop up to the for loop:
\* the delay, the request, the parse of the listing
FetchListingPage ==
    /\ prog = "asn"
    /\ asn_pc = "page"
    /\ \E resp \in ListingResponses(MaxLinks - asn_rows) :
        \* the site has no more than MaxPages pages with rows
        /\ (page_number > MaxPages => resp.tag # "Ok")
        /\ LET html == MakeRequest(resp)
               urls == IF Falsy(html) \/ html = Raised THEN <<>>
                       ELSE ParseAccidentList(html, page_number)
               outcome == IF html = Raised THEN "raise"
                          ELSE ListingOutcome(html, urls)
           IN  /\ asn_response' = resp
               /\ asn_rows' = asn_rows + RowCount(resp)
               /\ asn_log' = Append(asn_log,
                      [kind |-> "page", window |-> <<page_number, 0>>,
                       tag |-> resp.tag, keep |-> FALSE,
                       stop |-> EndOfData(resp), delayed |-> TRUE])
               /\ CASE outcome = "raise" ->
                       \* main, lines 299-301: except, print, continue
                       /\ asn_pc' = AfterYear(year_i, years, "Exception")
                       /\ asn_error' = "Exception"
                       /\ asn_printed' = asn_printed \o
                              ErrorLine(years[year_i], "Exception")
                       /\ UNCHANGED <<accident_urls, url_i, page_number>>
                 [] outcome = "break" ->
                       \* break; return all_accidents
                       /\ asn_pc' = "returned"
                       /\ UNCHANGED <<accident_urls, url_i, asn_error,
                                      asn_printed, page_number>>
                 [] outcome = "for" ->
                       /\ asn_pc' = "detail"
                       /\ accident_urls' = urls
                       /\ url_i' = 1
                       /\ UNCHANGED <<asn_error, asn_printed, page_number>>
                 [] outcome = "skip" ->
                       /\ page_number' = page_number + 1
                       /\ UNCHANGED <<asn_pc, accident_urls, url_i, asn_error,
                                      asn_printed>>
    /\ asn_fetched' = asn_fetched \cup {years[year_i]}
    /\ UNCHANGED <<prog, pr_vars, mg_vars, nt_vars, ld_vars, asn_run, years, year_i, all_accidents,
                   asn_artifact, asn_before, asn_saved>>

\* scrape_year, lines 234-254: one turn of the for loop (the delay, the
\* request, the parse of the detail page), and page_number += 1 after the
\* last url of the page
FetchDetail ==
    /\ prog = "asn"
    /\ asn_pc = "detail"
    /\ \E resp \in DetailResponses :
        LET url  == accident_urls[url_i]
            html == MakeRequest(resp)
            accident_data == IF Falsy(html) \/ html = Raised THEN None
                             ELSE ParseAccidentDetail(html, url)
        IN  /\ asn_response' = resp
            /\ asn_log' = Append(asn_log,
                   [kind |-> "detail", window |-> url, tag |-> resp.tag,
                    keep |-> Parsable(resp), stop |-> FALSE, delayed |-> TRUE])
            /\ all_accidents' = IF accident_data # None
                                THEN Append(all_accidents, accident_data)
                                ELSE all_accidents
            /\ IF html = Raised
               THEN \* main, lines 299-301: except, print, continue
                    /\ asn_pc' = AfterYear(year_i, years, "Exception")
                    /\ asn_error' = "Exception"
                    /\ asn_printed' = asn_printed \o
                           ErrorLine(years[year_i], "Exception")
                    /\ UNCHANGED <<url_i, page_number>>
               ELSE IF url_i < Len(accident_urls)
               THEN /\ url_i' = url_i + 1
                    /\ UNCHANGED <<asn_pc, page_number, asn_error, asn_printed>>
               ELSE /\ url_i' = 0
                    /\ page_number' = page_number + 1
                    /\ asn_pc' = "page"
                    /\ UNCHANGED <<asn_error, asn_printed>>
    /\ UNCHANGED <<prog, pr_vars, mg_vars, nt_vars, ld_vars, asn_run, years, year_i, accident_urls,
                   asn_artifact, asn_before, asn_fetched, asn_saved, asn_rows>>

\* save_to_json(data, year), lines 263-268: the envelope written
Envelope(data, year) ==
    [year |-> year, total_accidents |-> Len(data), accidents |-> data]

\* save_to_json(accidents, year), called by main at line 292: the file is
\* opened with 'w' whatever is there; when open or write raises (OSError),
\* main's except clause prints the error and goes on with the next year
SaveToJson ==
    /\ prog = "asn"
    /\ asn_pc = "returned"
    /\ \E disk_ok \in BOOLEAN :
        LET year  == years[year_i]
            error == IF disk_ok THEN "none" ELSE "OSError"
        IN  /\ asn_artifact' = IF disk_ok
                               THEN [asn_artifact EXCEPT
                                        ![year] = Envelope(all_accidents, year)]
                               ELSE asn_artifact
            /\ asn_saved' = IF disk_ok THEN asn_saved \cup {year} ELSE asn_saved
            /\ asn_error' = error
            /\ asn_printed' = asn_printed \o ErrorLine(year, error)
            /\ asn_pc' = AfterYear(year_i, years, error)
    /\ UNCHANGED <<prog, pr_vars, mg_vars, nt_vars, ld_vars, asn_run, years, year_i, page_number,
                   accident_urls, url_i, all_accidents, asn_response, asn_log,
                   asn_before, asn_fetched, asn_rows>>

\* the session is interrupted from outside (Ctrl-C, kill): nothing more runs
Interrupt ==
    /\ prog = "asn"
    /\ asn_pc \in {"loop", "page", "detail", "returned"}
    /\ asn_pc' = "killed"
    /\ UNCHANGED <<prog, pr_vars, mg_vars, nt_vars, ld_vars, asn_run, years, year_i, page_number,
                   accident_urls, url_i, all_accidents, asn_response, asn_log,
                   asn_error, asn_artifact, asn_printed, asn_before,
                   asn_fetched, asn_saved, asn_rows>>

NextASN ==
    \/ MainStart
    \/ ScrapeYearStart
    \/ FetchListingPage
    \/ FetchDetail
    \/ SaveToJson
    \/ Interrupt

----------------------------------------------------------------------------
(* ASN_scraping/scraper.py: one call of _parse_accident_detail(html, url)
   and one call of _extract_country(location_text, soup) *)

\* the url of the page parsed
PageUrl == <<"wikibase", "k1">>

\* the text of the second cell of row i, when not empty: i characters, so
\* that the rows of a page differ in their values
ValueAt(i) == [j \in 1..i |-> "x"]

\* the rows a table can carry at position i: a caption and a value, empty or
\* not; a type cell with a link; location rows, with or without a country
\* link, with or without the td.caption 'Location:' that _extract_country
\* looks for; a row of one cell
RowsAt(i) ==
    [cells : {2}, caption : Captions, located : {FALSE},
     value : {<<>>, ValueAt(i)}, link : {NoLink}]
    \cup
    {[cells |-> 2, caption |-> "type", located |-> FALSE, value |-> ValueAt(i),
      link |-> [country |-> FALSE, text |-> <<" ", "t">>]],
     [cells |-> 2, caption |-> "location", located |-> TRUE,
      value |-> <<"x", " ", "-", " ", "y">>,
      link |-> [country |-> TRUE, text |-> <<"c">>]],
     [cells |-> 2, caption |-> "location", located |-> TRUE,
      value |-> <<"x", " ", "-", " ", "y">>, link |-> NoLink],
     [cells |-> 2, caption |-> "location", located |-> FALSE,
      value |-> <<"x", " ", "-", " ", "y">>,
      link |-> [country |-> TRUE, text |-> <<"c">>]],
     [cells |-> 1, caption |-> "date", located |-> FALSE, value |-> <<>>,
      link |-> NoLink]}

\* what follows the table: no narrative and no sources, or both
Tails ==
    {[narrative |-> NoTag, sources |-> NoTag],
     [narrative |-> [span |-> Str(<<"n", " ">>), sibling |-> NoTag],
      sources |-> [links |-> << <<"s">> >>]]}

\* the detail pages with a table of at most n rows, and one without a table
DetailPages(n) ==
    {[type |-> "html", table |-> FALSE, rows |-> <<>>, narrative |-> NoTag,
      sources |-> NoTag]}
    \cup
    {[type |-> "html", table |-> TRUE, rows |-> r, narrative |-> t.narrative,
      sources |-> t.sources] :
        r \in UNION {{q \in [1..k -> UNION {RowsAt(i) : i \in 1..k}] :
                         \A i \in 1..k : q[i] \in RowsAt(i)} : k \in 0..n},
        t \in Tails}

\* the characters of a location text, and the texts of at most n characters
TextChars == {"x", "y", " ", "-"}
Texts(n) == UNION {[1..k -> TextChars] : k \in 0..n}

\* the rows _extract_country can find the location cell in
LocationRows ==
    [cells : {2}, caption : {"location"}, located : BOOLEAN, value : {<<>>},
     link : {NoLink, [country |-> FALSE, text |-> <<"o">>],
             [country |-> TRUE, text |-> <<" ", "c", " ">>],
             [country |-> TRUE, text |-> <<"d">>]}]

\* the pages _extract_country is called on
CountrySoups ==
    {[type |-> "html", table |-> TRUE, rows |-> r, narrative |-> NoTag,
      sources |-> NoTag] :
        r \in {<<>>} \cup {<<a>> : a \in LocationRows}
                     \cup {<<a, b>> : a \in LocationRows, b \in LocationRows}}

\* no call is under way
PrInit ==
    /\ pr_pc = "idle"
    /\ soup = NoTag
    /\ row_i = 0
    /\ pr_accident_data = None
    /\ location_text = <<>>
    /\ country = <<>>

\* _parse_accident_detail, lines 125-129: the page is parsed,
\* accident_data = {'url': url}
PrInitParse ==
    /\ pr_pc = "rows"
    /\ soup \in DetailPages(MaxRows)
    /\ row_i = 1
    /\ pr_accident_data = [url |-> PageUrl]
    /\ location_text = <<>>
    /\ country = <<>>

\* _extract_country is about to be called
PrInitCountry ==
    /\ pr_pc = "call"
    /\ soup \in CountrySoups
    /\ row_i = 0
    /\ pr_accident_data = None
    /\ location_text \in Texts(MaxText)
    /\ country = <<>>

\* _parse_accident_detail, lines 133-170: one turn of the loop over the rows
ParseDetailRow ==
    /\ prog = "parse"
    /\ pr_pc = "rows"
    /\ soup.table
    /\ row_i <= Len(soup.rows)
    /\ pr_accident_data' = ParseRow(pr_accident_data, soup.rows[row_i], soup)
    /\ row_i' = row_i + 1
    /\ UNCHANGED <<prog, asn_vars, nt_vars, mg_vars, ld_vars, pr_pc, soup, location_text,
                   country>>

\* _parse_accident_detail, lines 130-131 and 172-198: None without a table;
\* after the loop, the narrative, the sources and the return
ParseDetailReturn ==
    /\ prog = "parse"
    /\ pr_pc = "rows"
    /\ ~soup.table \/ row_i > Len(soup.rows)
    /\ pr_accident_data' =
           IF ~soup.table THEN None
           ELSE ParseSources(ParseNarrative(pr_accident_data, soup), soup)
    /\ pr_pc' = "done"
    /\ UNCHANGED <<prog, asn_vars, nt_vars, mg_vars, ld_vars, soup, row_i, location_text,
                   country>>

\* _extract_country(location_text, soup), lines 104-121
ExtractCountryCall ==
    /\ prog = "country"
    /\ pr_pc = "call"
    /\ country' = ExtractCountry(location_text, soup)
    /\ pr_pc' = "done"
    /\ UNCHANGED <<prog, asn_vars, nt_vars, mg_vars, ld_vars, soup, row_i,
                   pr_accident_data, location_text>>

NextParse == ParseDetailRow \/ ParseDetailReturn

NextCountry == ExtractCountryCall

----------------------------------------------------------------------------
(* NTSB_scraping/script.py *)

\* range(1, last_month + 1) with last_month = 12 (line 175)
December == 12

\* the years a run can be configured with, and the dates it can run on
Years == 2010..2011
CurrentDates == {<<2010, 2>>, <<2011, 3>>, <<2012, 1>>}

\* a (year, month) window, and their order
Windows == Years \X (1..December)
Before(w1, w2) == w1[1] < w2[1] \/ (w1[1] = w2[1] /\ w1[2] < w2[2])

\* what the API can answer to an export request: a 2xx response with a body,
\* or a failure that requests raises as a RequestException
\* (non-2xx status via raise_for_status, connection error, timeout)
ExportResponses(w, run) ==
    {[tag |-> "Ok", content |-> [zip |-> w, run |-> run]],
     [tag |-> "HttpError", content |-> None],
     [tag |-> "NetworkError", content |-> None]}

\* a variant of download_month without the check of lines 122-124
ExistsNever(files, w) == FALSE

\* filepath.exists()
Exists(files, w) == files[w] # NoFile

\* a variant of download_month that writes the body before raise_for_status
DownloadMonthWriteFirst(files, w, resp) ==
    IF Exists(files, w)
    THEN [files |-> files, ret |-> TRUE, requested |-> FALSE, printed |-> <<>>,
          slept |-> FALSE]
    ELSE IF resp.tag = "Ok"
    THEN [files |-> [files EXCEPT ![w] = resp.content], ret |-> TRUE,
          requested |-> TRUE, printed |-> <<>>, slept |-> TRUE]
    ELSE [files |-> [files EXCEPT ![w] = resp.content], ret |-> FALSE,
          requested |-> TRUE,
          printed |-> <<[failed |-> w, why |-> resp.tag]>>, slept |-> FALSE]

\* download_month(year, month) on the directory `files` when the API answers
\* `resp`: the directory afterwards, the value returned, whether a request
\* went out, what was printed on failure, and whether time.sleep(delay)
\* (line 152, on the success path only) ran
DownloadMonth(files, w, resp) ==
    IF Exists(files, w)
    THEN [files |-> files, ret |-> TRUE, requested |-> FALSE, printed |-> <<>>,
          slept |-> FALSE]
    ELSE IF resp.tag = "Ok"
    THEN [files |-> [files EXCEPT ![w] = resp.content], ret |-> TRUE,
          requested |-> TRUE, printed |-> <<>>, slept |-> TRUE]
    ELSE [files |-> files, ret |-> FALSE, requested |-> TRUE,
          printed |-> <<[failed |-> w, why |-> resp.tag]>>, slept |-> FALSE]

\* download_all, lines 172-175: the last month of `year`
LastMonth(year, cur) == IF year = cur[1] THEN cur[2] ELSE December

\* the two nested range() loops: is w the last window, and the one after w
IsLastWindow(w, cur, last_year) ==
    w[1] >= last_year /\ w[2] >= LastMonth(w[1], cur)
\* a variant of the loops that stays on the window (a retry)
NextWindowRetry(w, cur) == w

NextWindow(w, cur) ==
    IF w[2] < LastMonth(w[1], cur) THEN <<w[1], w[2] + 1>> ELSE <<w[1] + 1, 1>>

\* a variant of the loops that gives up at the first failed month
AfterMonthAbort(w, ret, cur, last_year) ==
    IF ~ret \/ IsLastWindow(w, cur, last_year) THEN "done" ELSE "loop"

\* lines 177-182: whatever download_month returned, the loops go on until
\* the last window
AfterMonth(w, ret, cur, last_year) ==
    IF IsLastWindow(w, cur, last_year) THEN "done" ELSE "loop"

\* number of export requests that failed so far, over all runs
Failures == LET S == {w \in Windows : nt_hist[w].failures > 0}
            IN  IF S = {} THEN 0
                ELSE LET RECURSIVE Sum(_)
                         Sum(T) == IF T = {} THEN 0
                                   ELSE LET x == CHOOSE x \in T : TRUE
                                        IN  nt_hist[x].failures + Sum(T \ {x})
                     IN  Sum(S)

\* before the first run: an empty output directory
NtInit ==
    /\ nt_pc = "idle"
    /\ nt_run = 0
    /\ start_year = 0
    /\ end_year = 0
    /\ current_date = <<0, 0>>
    /\ nt_year = 0
    /\ nt_month = 0
    /\ total = 0
    /\ successful = 0
    /\ failed = 0
    /\ nt_files = [w \in Windows |-> NoFile]
    /\ nt_printed = <<>>
    /\ nt_slept = FALSE
    /\ nt_log = <<>>
    /\ nt_hist = [w \in Windows |->
                    [writes |-> 0, successes |-> 0, failures |-> 0,
                     first |-> NoFile]]

\* __main__ and download_all, lines 160-166: a run starts; the loop is entered
\* at (start_year, 1) unless range(start_year, end_year + 1) is empty
DownloadAllStart ==
    /\ prog = "ntsb"
    /\ nt_pc \in {"idle", "done"}
    /\ nt_run < MaxRuns
    /\ nt_run' = nt_run + 1
    /\ \E sy \in Years, ey \in Years, cur \in CurrentDates :
        \* the clock does not run backwards between runs
        /\ (nt_run > 0 => ~Before(cur, current_date))
        /\ start_year' = sy
        /\ end_year' = ey
        /\ current_date' = cur
        /\ nt_year' = sy
        /\ nt_month' = 1
        /\ nt_pc' = IF sy <= ey THEN "loop" ELSE "done"
    /\ total' = 0
    /\ successful' = 0
    /\ failed' = 0
    /\ nt_printed' = <<>>
    /\ nt_slept' = FALSE
    /\ nt_log' = <<>>
    /\ UNCHANGED <<prog, pr_vars, mg_vars, asn_vars, ld_vars, nt_files, nt_hist>>

\* download_all, lines 177-182: one turn of the inner loop, with the call of
\* download_month, and the step to the next (year, month)
DownloadAllStep ==
    /\ prog = "ntsb"
    /\ nt_pc = "loop"
    /\ LET w == <<nt_year, nt_month>>
       IN  \E resp \in ExportResponses(w, nt_run) :
            LET r == DownloadMonth(nt_files, w, resp)
                fail == r.requested /\ resp.tag # "Ok"
                ok == r.requested /\ resp.tag = "Ok"
            IN  /\ (fail => Failures < MaxFailures)
                \* a response is only drawn when a request goes out
                /\ (~r.requested => resp.tag = "Ok")
                /\ nt_files' = r.files
                /\ total' = total + 1
                /\ successful' = IF r.ret THEN successful + 1 ELSE successful
                /\ failed' = IF r.ret THEN failed ELSE failed + 1
                /\ nt_printed' = nt_printed \o r.printed
                \* a request uses up the delay before it; a skip leaves it
                /\ nt_slept' = IF r.requested THEN r.slept ELSE nt_slept
                /\ nt_log' = Append(nt_log,
                       [window |-> w, existed |-> nt_files[w] # NoFile,
                        requested |-> r.requested, ok |-> ok,
                        delayed |-> nt_slept])
                /\ nt_hist' = [nt_hist EXCEPT ![w] =
                       [writes |-> @.writes +
                            (IF r.files[w] # nt_files[w] THEN 1 ELSE 0),
                        successes |-> @.successes + (IF ok THEN 1 ELSE 0),
                        failures |-> @.failures + (IF fail THEN 1 ELSE 0),
                        first |-> IF @.first = NoFile THEN r.files[w]
                                  ELSE @.first]]
                /\ nt_pc' = AfterMonth(w, r.ret, current_date, end_year)
                /\ IF nt_pc' = "done"
                   THEN UNCHANGED <<nt_year, nt_month>>
                   ELSE /\ nt_year' = NextWindow(w, current_date)[1]
                        /\ nt_month' = NextWindow(w, current_date)[2]
    /\ UNCHANGED <<prog, pr_vars, mg_vars, asn_vars, ld_vars, nt_run, start_year, end_year,
                   current_date>>

NextNTSB == DownloadAllStart \/ DownloadAllStep

----------------------------------------------------------------------------
(* NTSB_scraping/merge_extracted_json.py *)

\* the file names of the extracted directory, in sorted() order: the case
\* files of two months, files that are not case files, and the file the
\* script writes
FileNames ==
    <<"2010_01_cases.json", "2010_01_readme.txt", "2010_01_summary.json",
      "2010_02_cases.json", "merged_all_cases.json">>

\* extracted_dir.glob("*.json") matches the name
GlobJson(name) == name # "2010_01_readme.txt"

\* "cases" in f.name
HasCases(name) ==
    name \in {"2010_01_cases.json", "2010_02_cases.json", "merged_all_cases.json"}

\* line 39: output_file
OutputFile == "merged_all_cases.json"

\* n records of the file tagged `tag`
Cases(tag, n) == [j \in 1..n |-> [case |-> <<tag, j>>]]

\* what json.load gives for a file: a list of records, a dict with or
\* without 'cases', or an exception (not JSON)
JsonList(items) == [kind |-> "list", has_cases |-> FALSE, items |-> items]
JsonDict(has, items) == [kind |-> "dict", has_cases |-> has, items |-> items]
NotJson == [kind |-> "invalid", has_cases |-> FALSE, items |-> <<>>]

\* the contents a case file tagged `tag` can have
CaseFiles(tag) ==
    {NoFile, NotJson, JsonDict(FALSE, <<>>)}
    \cup {JsonList(Cases(tag, n)) : n \in 0..MaxCases}
    \cup {JsonDict(TRUE, Cases(tag, n)) : n \in 0..MaxCases}

\* line 8: sorted([f for f in extracted_dir.glob("*.json") if "cases" in f.name])
JsonFiles(dir) ==
    SelectSeq(FileNames,
              LAMBDA name : dir[name] # NoFile /\ GlobJson(name) /\ HasCases(name))

\* a variant of the loop body without the 'cases' branch: every dict is one
\* record
MergeFileDictAsRecord(acc, count, data) ==
    IF data.kind = "invalid"
    THEN [all_cases |-> acc, total_records |-> count]
    ELSE IF data.kind = "list"
    THEN [all_cases |-> acc \o data.items,
          total_records |-> count + Len(data.items)]
    ELSE [all_cases |-> Append(acc, data), total_records |-> count + 1]

\* lines 17-36: the body of the loop for one file whose content is `data`
MergeFile(acc, count, data) ==
    IF data.kind = "invalid"
    THEN \* json.load raises; except Exception prints the error
         [all_cases |-> acc, total_records |-> count]
    ELSE IF data.kind = "list"
    THEN [all_cases |-> acc \o data.items,
          total_records |-> count + Len(data.items)]
    ELSE IF data.has_cases
    THEN [all_cases |-> acc \o data.items,
          total_records |-> count + Len(data.items)]
    ELSE [all_cases |-> Append(acc, data), total_records |-> count + 1]

\* before the first run: the extracted files, and no merged file
MgInit ==
    /\ mg_pc = "idle"
    /\ mg_run = 0
    /\ extracted_dir = [name \in {FileNames[i] : i \in 1..Len(FileNames)} |->
                           NoFile]
    /\ json_files = <<>>
    /\ mg_i = 0
    /\ all_cases = <<>>
    /\ total_records = 0
    /\ mg_printed = 0
    /\ mg_before = extracted_dir

\* the directory unzip_with_rename.py left
MgInitDir ==
    /\ mg_pc = "idle"
    /\ mg_run = 0
    /\ \E a \in CaseFiles("a"), b \in CaseFiles("b") :
           extracted_dir =
               [name \in {FileNames[i] : i \in 1..Len(FileNames)} |->
                   CASE name = "2010_01_cases.json" -> a
                     [] name = "2010_02_cases.json" -> b
                     [] name = "2010_01_readme.txt" -> NotJson
                     [] name = "2010_01_summary.json" -> JsonDict(FALSE, <<>>)
                     [] OTHER -> NoFile]
    /\ json_files = <<>>
    /\ mg_i = 0
    /\ all_cases = <<>>
    /\ total_records = 0
    /\ mg_printed = 0
    /\ mg_before = extracted_dir

\* lines 5-13: a run starts
MergeStart ==
    /\ prog = "merge"
    /\ mg_pc \in {"idle", "done"}
    /\ mg_run < MaxRuns
    /\ mg_run' = mg_run + 1
    /\ json_files' = JsonFiles(extracted_dir)
    /\ mg_i' = 1
    /\ all_cases' = <<>>
    /\ total_records' = 0
    /\ mg_before' = extracted_dir
    /\ mg_pc' = "loop"
    /\ UNCHANGED <<prog, asn_vars, pr_vars, nt_vars, ld_vars, extracted_dir,
                   mg_printed>>

\* lines 15-36: one turn of the loop over json_files
MergeNextFile ==
    /\ prog = "merge"
    /\ mg_pc = "loop"
    /\ mg_i <= Len(json_files)
    /\ LET r == MergeFile(all_cases, total_records, extracted_dir[json_files[mg_i]])
       IN  /\ all_cases' = r.all_cases
           /\ total_records' = r.total_records
    /\ mg_i' = mg_i + 1
    /\ UNCHANGED <<prog, asn_vars, pr_vars, nt_vars, ld_vars, mg_pc, mg_run,
                   extracted_dir, json_files, mg_printed, mg_before>>

\* lines 38-46: json.dump(all_cases) into output_file, and the total printed
MergeSave ==
    /\ prog = "merge"
    /\ mg_pc = "loop"
    /\ mg_i > Len(json_files)
    /\ extracted_dir' = [extracted_dir EXCEPT ![OutputFile] = JsonList(all_cases)]
    /\ mg_printed' = total_records
    /\ mg_pc' = "done"
    /\ UNCHANGED <<prog, asn_vars, pr_vars, nt_vars, ld_vars, mg_run, json_files,
                   mg_i, all_cases, total_records, mg_before>>

NextMerge == MergeStart \/ MergeNextFile \/ MergeSave

----------------------------------------------------------------------------
(* TL/load_staging.py *)

Sources == 1..3

\* SQL NULL, which is what psycopg2 sends for Python's None
NULL == "NULL"
\* a url that record.get("url") does not find
NoUrl == <<>>
\* a file that no load of the invocation has read
NotRead == <<[unread |-> TRUE]>>

\* records of ASN.json: the url as its '/'-separated segments, and the rest
Records1 ==
    {[url |-> <<"wikibase", "k1">>, data |-> "a"],
     [url |-> <<"wikibase", "k1">>, data |-> "b"],
     [url |-> <<"wikibase", "k2">>, data |-> "a"],
     [url |-> <<"wikibase", "">>, data |-> "a"],
     [url |-> NoUrl, data |-> "a"]}

\* records of NTSB.json: cm_ntsbNum (NULL when the field is missing)
Records2 ==
    {[cm_ntsbNum |-> "k1", data |-> "a"],
     [cm_ntsbNum |-> "k1", data |-> "b"],
     [cm_ntsbNum |-> "k2", data |-> "a"],
     [cm_ntsbNum |-> NULL, data |-> "a"]}

\* rows of CSV.csv: the index column (NULL when the file has no such column)
Records3 ==
    {[index |-> "k1", data |-> "a"],
     [index |-> "k1", data |-> "b"],
     [index |-> "k2", data |-> "a"],
     [index |-> NULL, data |-> "a"]}

Records(s) == CASE s = 1 -> Records1 [] s = 2 -> Records2 [] s = 3 -> Records3

\* the files of at most n records
FilesUpTo(s, n) == UNION {[1..k -> Records(s)] : k \in 0..n}

\* json.dumps(record)
Dumps(record) == [json |-> record]

\* what .get(<key field>) returns for a record of source s
\* (lines 29, 55, 81)
GetKey(s, record) ==
    CASE s = 1 -> record.url
      [] s = 2 -> record.cm_ntsbNum
      [] s = 3 -> record.index

\* the source_id of a record (lines 29, 55, 81): for source 1 the last
\* segment of the url, "AttributeError" when there is no url to split
SourceId(s, record) ==
    IF s = 1
    THEN IF GetKey(1, record) = NoUrl THEN "AttributeError"
         ELSE GetKey(1, record)[Len(GetKey(1, record))]
    ELSE GetKey(s, record)

\* does building the batch raise (source 1 only: None has no split)
BuildRaises(s, file) ==
    s = 1 /\ \E i \in 1..Len(file) : GetKey(1, file[i]) = NoUrl

\* the loops at lines 28-30, 53-58, 80-84: one (source_id, raw) per record
BuildRows(s, file) ==
    [i \in 1..Len(file) |-> [id |-> SourceId(s, file[i]), raw |-> Dumps(file[i])]]

\* a variant without the unique index: nothing ever conflicts
ConflictsNever(table, id) == FALSE

\* does the table hold a row that conflicts with source_unique_id = id
\* (a NULL conflicts with nothing)
Conflicts(table, id) ==
    id # NULL /\ \E i \in 1..Len(table) : table[i].id = id

\* a variant that updates on conflict:
\* ON CONFLICT (source_unique_id) DO UPDATE SET raw_json = EXCLUDED.raw_json
InsertRowUpsert(table, row, mode) ==
    IF row.id = NULL /\ mode = "PRIMARY KEY"
    THEN [table |-> table, error |-> "NotNullViolation"]
    ELSE IF row.id # NULL /\ \E i \in 1..Len(table) : table[i].id = row.id
    THEN [table |-> [i \in 1..Len(table) |->
                        IF table[i].id = row.id THEN row ELSE table[i]],
          error |-> "none"]
    ELSE [table |-> Append(table, row), error |-> "none"]

\* INSERT ... ON CONFLICT (source_unique_id) DO NOTHING of one row:
\* the table afterwards and the error raised ("none" when none)
InsertRow(table, row, mode) ==
    IF row.id = NULL /\ mode = "PRIMARY KEY"
    THEN [table |-> table, error |-> "NotNullViolation"]
    ELSE IF Conflicts(table, row.id)
    THEN [table |-> table, error |-> "none"]
    ELSE [table |-> Append(table, row), error |-> "none"]

RECURSIVE ExecuteBatch(_, _, _, _)
\* execute_batch(cur, sql, rows): the statement run for rows[1..n] in order,
\* stopping at the first error
ExecuteBatch(table, rows, n, mode) ==
    IF n = 0 THEN [table |-> table, error |-> "none"]
    ELSE LET before == ExecuteBatch(table, rows, n - 1, mode)
         IN  IF before.error # "none" THEN before
             ELSE InsertRow(before.table, rows[n], mode)

\* load_source<s>(path) on the file read, when the database is up:
\* the table afterwards, the count printed, the error raised
LoadSource(s, file, table, mode) ==
    IF BuildRaises(s, file)
    THEN [table |-> table, printed |-> 0, error |-> "AttributeError"]
    ELSE LET rows == BuildRows(s, file)
             done == ExecuteBatch(table, rows, Len(rows), mode)
         IN  [table |-> done.table, printed |-> Len(rows), error |-> done.error]

\* the rows of a table with source_unique_id = id
RowsOf(table, id) == {i \in 1..Len(table) : table[i].id = id}

LdInit ==
    /\ ld_pc = "idle"
    /\ ld_run = 0
    /\ key_mode \in {"PRIMARY KEY", "UNIQUE"}
    /\ ld_disk = [s \in Sources |-> <<>>]
    /\ ld_tables = [s \in Sources |-> <<>>]
    /\ ld_committed = [s \in Sources |-> <<>>]
    /\ ld_before = [s \in Sources |-> <<>>]
    /\ ld_files = [s \in Sources |-> NotRead]
    /\ ld_last = [s \in Sources |-> NotRead]
    /\ ld_printed = [s \in Sources |-> 0]
    /\ ld_error = "none"
    /\ ld_budget = MaxRecs

\* the environment rewrites one input file between two invocations
EditFile ==
    /\ prog = "load"
    /\ ld_pc \in {"idle", "done", "failed"}
    /\ ld_run < MaxLoads
    /\ \E s \in Sources : \E f \in FilesUpTo(s, ld_budget) :
        /\ f # ld_disk[s]
        /\ ld_disk' = [ld_disk EXCEPT ![s] = f]
        /\ ld_budget' = ld_budget - Len(f)
    /\ UNCHANGED <<prog, pr_vars, mg_vars, asn_vars, nt_vars, ld_pc, ld_run, key_mode, ld_tables,
                   ld_committed, ld_before, ld_files, ld_last, ld_printed,
                   ld_error>>

\* lines 15-16 and 101: the process starts with a new connection, whose
\* transaction sees the committed tables
LoaderStart ==
    /\ prog = "load"
    /\ ld_pc \in {"idle", "done", "failed"}
    /\ ld_run < MaxLoads
    /\ ld_run' = ld_run + 1
    /\ ld_pc' = "source1"
    /\ ld_tables' = ld_committed
    /\ ld_before' = ld_committed
    /\ ld_files' = [s \in Sources |-> NotRead]
    /\ ld_printed' = [s \in Sources |-> 0]
    /\ ld_error' = "none"
    /\ ld_last' = IF ld_pc = "done" THEN ld_files ELSE ld_last
    /\ UNCHANGED <<prog, pr_vars, mg_vars, asn_vars, nt_vars, key_mode, ld_disk, ld_committed,
                   ld_budget>>

\* a variant of the calls with conn.autocommit = True: every batch that
\* succeeds is durable at once
LoadAutocommit(s, here, next) ==
    /\ prog = "load"
    /\ ld_pc = here
    /\ \E db_up \in BOOLEAN :
        LET file == ld_disk[s]
            r == LoadSource(s, file, ld_tables[s], key_mode)
            error == IF r.error = "none" /\ ~db_up THEN "OperationalError"
                     ELSE r.error
        IN  /\ (~db_up => r.error = "none" /\ Len(file) > 0)
            /\ ld_files' = [ld_files EXCEPT ![s] = file]
            /\ ld_error' = error
            /\ IF error = "none"
               THEN /\ ld_tables' = [ld_tables EXCEPT ![s] = r.table]
                    /\ ld_committed' = [ld_committed EXCEPT ![s] = r.table]
                    /\ ld_printed' = [ld_printed EXCEPT ![s] = r.printed]
                    /\ ld_pc' = next
               ELSE /\ ld_tables' = ld_committed
                    /\ ld_committed' = ld_committed
                    /\ ld_printed' = ld_printed
                    /\ ld_pc' = "failed"
    /\ UNCHANGED <<prog, pr_vars, mg_vars, asn_vars, nt_vars, ld_run, key_mode, ld_disk,
                   ld_before, ld_last, ld_budget>>

\* one of the calls at lines 102-104. An exception leaves __main__: the
\* process ends without commit and the server rolls the transaction back.
\* db_up = FALSE is the database failing during a batch that has rows.
Load(s, here, next) ==
    /\ prog = "load"
    /\ ld_pc = here
    /\ \E db_up \in BOOLEAN :
        LET file == ld_disk[s]
            r == LoadSource(s, file, ld_tables[s], key_mode)
            error == IF r.error = "none" /\ ~db_up THEN "OperationalError"
                     ELSE r.error
        IN  /\ (~db_up => r.error = "none" /\ Len(file) > 0)
            /\ ld_files' = [ld_files EXCEPT ![s] = file]
            /\ ld_error' = error
            /\ IF error = "none"
               THEN /\ ld_tables' = [ld_tables EXCEPT ![s] = r.table]
                    /\ ld_printed' = [ld_printed EXCEPT ![s] = r.printed]
                    /\ ld_pc' = next
               ELSE /\ ld_tables' = ld_committed
                    /\ ld_printed' = ld_printed
                    /\ ld_pc' = "failed"
    /\ UNCHANGED <<prog, pr_vars, mg_vars, asn_vars, nt_vars, ld_run, key_mode, ld_disk,
                   ld_committed, ld_before, ld_last, ld_budget>>

LoadSource1 == Load(1, "source1", "source2")
LoadSource2 == Load(2, "source2", "source3")
LoadSource3 == Load(3, "source3", "commit")

\* line 106: conn.commit()
Commit ==
    /\ prog = "load"
    /\ ld_pc = "commit"
    /\ ld_committed' = ld_tables
    /\ ld_pc' = "done"
    /\ UNCHANGED <<prog, pr_vars, mg_vars, asn_vars, nt_vars, ld_run, key_mode, ld_disk, ld_tables,
                   ld_before, ld_files, ld_last, ld_printed, ld_error, ld_budget>>

NextLoad ==
    EditFile \/ LoaderStart \/ LoadSource1 \/ LoadSource2 \/ LoadSource3 \/ Commit

----------------------------------------------------------------------------
Programs == {"asn", "ntsb", "load"}

\* the configuration of the scripts that are not run is the committed one
Init ==
    /\ prog \in Programs
    /\ AsnInit
    /\ PrInit
    /\ NtInit
    /\ MgInit
    /\ LdInit
    /\ prog # "asn" => years = <<2010>>

InitNTSB ==
    /\ prog = "ntsb"
    /\ AsnInit
    /\ PrInit
    /\ NtInit
    /\ MgInit
    /\ LdInit
    /\ key_mode = "UNIQUE"
    /\ years = <<2010>>

InitASN ==
    /\ prog = "asn"
    /\ AsnInit
    /\ PrInit
    /\ NtInit
    /\ MgInit
    /\ LdInit
    /\ key_mode = "UNIQUE"

Next == NextASN \/ NextNTSB \/ NextLoad

Spec == Init /\ [][Next]_vars

SpecASN == InitASN /\ [][NextASN]_vars

SpecNTSB == InitNTSB /\ [][NextNTSB]_vars

InitLoad ==
    /\ prog = "load"
    /\ AsnInit
    /\ PrInit
    /\ NtInit
    /\ MgInit
    /\ LdInit
    /\ years = <<2010>>

SpecLoad == InitLoad /\ [][NextLoad]_vars

\* the two harvesting drivers
InitHarvest ==
    /\ prog \in {"asn", "ntsb"}
    /\ AsnInit
    /\ PrInit
    /\ NtInit
    /\ MgInit
    /\ LdInit
    /\ key_mode = "UNIQUE"
    /\ prog # "asn" => years = <<2010>>

NextHarvest == NextASN \/ NextNTSB

SpecHarvest == InitHarvest /\ [][NextHarvest]_vars

\* one call of _parse_accident_detail
InitParse ==
    /\ prog = "parse"
    /\ AsnInit
    /\ PrInitParse
    /\ NtInit
    /\ MgInit
    /\ LdInit
    /\ key_mode = "UNIQUE"
    /\ years = <<2010>>

SpecParse == InitParse /\ [][NextParse]_vars

\* one call of _extract_country
InitCountry ==
    /\ prog = "country"
    /\ AsnInit
    /\ PrInitCountry
    /\ NtInit
    /\ MgInit
    /\ LdInit
    /\ key_mode = "UNIQUE"
    /\ years = <<2010>>

SpecCountry == InitCountry /\ [][NextCountry]_vars

\* the merge utility, run on an extracted directory
InitMerge ==
    /\ prog = "merge"
    /\ AsnInit
    /\ PrInit
    /\ NtInit
    /\ MgInitDir
    /\ LdInit
    /\ key_mode = "UNIQUE"
    /\ years = <<2010>>

SpecMerge == InitMerge /\ [][NextMerge]_vars

----------------------------------------------------------------------------
(* Properties of the listing-source driver *)

\* the records the site served as parsable detail pages, in request order
Served(log) ==
    LET idx == SelectIdx(log, Len(log))
    IN  [i \in 1..Len(idx) |-> [url |-> log[idx[i]].window]]

\* C1: in scrape_year, a listing page that comes back NotFound, or that
\* holds no detail link, is the last request of the run: the run returns
\* without an exception, there and then, and returns exactly the records of
\* the detail pages of the pages before it.
C1_EndOfDataStopsPagination ==
    \A j \in 1..Len(asn_log) :
        asn_log[j].stop =>
            /\ j = Len(asn_log)
            /\ asn_pc \in {"returned", "loop", "done", "killed"}
            /\ asn_error # "Exception"
            /\ page_number = asn_log[j].window[1]
            /\ all_accidents = Served(asn_log)
            /\ \A i \in 1..Len(all_accidents) :
                   all_accidents[i].url[1] < page_number
            /\ (asn_pc \in {"loop", "done"} /\ asn_error = "none") =>
                   asn_artifact[years[year_i]].accidents = Served(asn_log)

\* page 2 came back NotFound after page 1 gave a record, and the run returned
C1_Witness ==
    /\ asn_pc = "returned"
    /\ page_number = 2
    /\ asn_response.tag = "NotFound"
    /\ asn_log[Len(asn_log)].stop
    /\ Len(all_accidents) >= 1

\* C7: in scrape_year a detail page that cannot be fetched or parsed is
\* skipped and nothing else: the run goes on with the next link of the page,
\* or with the next listing page after the last link, raises nothing, and
\* its records are, one for one and in order, the detail pages that were
\* fetched and parsed.
C7_DetailFailureSkipped ==
    /\ asn_error = "none" => all_accidents = Served(asn_log)
    /\ (asn_log # <<>> /\ asn_log[Len(asn_log)].kind = "detail"
            /\ asn_pc # "killed") =>
           LET last == asn_log[Len(asn_log)]
               j == CHOOSE k \in 1..Len(accident_urls) :
                        accident_urls[k] = last.window
           IN  /\ asn_error = "none"
               /\ \E k \in 1..Len(accident_urls) : accident_urls[k] = last.window
               /\ j < Len(accident_urls) => (asn_pc = "detail" /\ url_i = j + 1)
               /\ j = Len(accident_urls) =>
                      (asn_pc = "page" /\ page_number = last.window[1] + 1)

\* page 1 gave two links, one parsed and one a 404, page 2 was NotFound:
\* the run returned one record after four requests
C7_Witness ==
    /\ asn_pc = "returned"
    /\ Len(asn_log) = 4
    /\ asn_log[1].kind = "page" /\ asn_log[1].window = <<1, 0>>
    /\ asn_log[2].kind = "detail" /\ asn_log[2].keep
    /\ asn_log[3].kind = "detail" /\ asn_log[3].tag = "NotFound"
    /\ asn_log[4].kind = "page" /\ asn_log[4].tag = "NotFound"
    /\ asn_log[4].window = <<2, 0>>
    /\ Len(all_accidents) = 1
    /\ asn_error = "none"

\* C2: within one run, each driver visits its windows (listing pages for
\* scrape_year, (year, month) windows for download_all) in strictly
\* increasing order, so none is requested twice, whatever the outcome of
\* each fetch.
C2_WindowsStrictlyIncreasing ==
    /\ \A i, j \in 1..Len(asn_log) :
           (i < j /\ asn_log[i].kind = "page" /\ asn_log[j].kind = "page")
               => asn_log[i].window[1] < asn_log[j].window[1]
    /\ \A i, j \in 1..Len(nt_log) :
           i < j => Before(nt_log[i].window, nt_log[j].window)

\* an export request failed and the run went on to request a later window
C2_Witness ==
    \E i, j \in 1..Len(nt_log) :
        /\ i < j
        /\ nt_log[i].requested /\ ~nt_log[i].ok
        /\ nt_log[j].requested


\* the listing pages of the current run that failed with a transient error
TransientPages ==
    {j \in 1..Len(asn_log) :
        asn_log[j].kind = "page" /\ asn_log[j].tag = "TransientError"}

\* C11: when a listing page fails with a transient error after earlier pages
\* gave records, scrape_year stops at that page and returns the accumulated
\* records, and main hands them to save_to_json: once the year's iteration
\* is over, either the write failed (OSError, printed) or the year's
\* artifact holds exactly the accumulated list.
C11_PartialResultsPersisted ==
    \A j \in TransientPages :
        Served(asn_log) # <<>> =>
            /\ j = Len(asn_log)
            /\ all_accidents = Served(asn_log)
            /\ asn_pc \in {"returned", "loop", "done", "killed"}
            /\ asn_pc \in {"loop", "done"} =>
                   \/ asn_error = "OSError"
                   \/ /\ asn_error = "none"
                      /\ years[year_i] \in asn_saved
                      /\ asn_artifact[years[year_i]].accidents = all_accidents
                      /\ asn_artifact[years[year_i]].total_accidents =
                             Len(all_accidents)

\* page 1 gave a record, page 2 failed with a transient error, and the
\* year's artifact was written with the record
C11_Witness ==
    /\ asn_pc \in {"loop", "done"}
    /\ asn_error = "none"
    /\ TransientPages # {}
    /\ Len(all_accidents) >= 1
    /\ asn_artifact[years[year_i]].accidents = all_accidents

\* C13 (as claimed): a session that starts when the artifact of a year is on
\* disk skips that year: it requests none of its pages and leaves the
\* artifact as it was.
C13_ExistingYearSkipped ==
    \A y \in ListingYears :
        asn_before[y] # NoFile =>
            /\ y \notin asn_fetched
            /\ asn_artifact[y] = asn_before[y]

\* C15: a year whose run fails with an error does not end the session: the
\* error is printed for that year and the loop goes on, so that a session
\* that is not interrupted requests every year of the list and, for each,
\* either writes its artifact or prints its error.
C15_FailedYearDoesNotAbortSession ==
    /\ asn_error # "none" =>
           /\ asn_printed # <<>>
           /\ asn_printed[Len(asn_printed)] =
                  [year |-> years[year_i], error |-> asn_error]
           /\ asn_pc \in {"loop", "done", "killed"}
           /\ asn_pc = "done" => year_i = Len(years)
    /\ asn_pc = "done" =>
           \A i \in 1..Len(years) :
               /\ years[i] \in asn_fetched
               /\ \/ years[i] \in asn_saved
                  \/ \E k \in 1..Len(asn_printed) : asn_printed[k].year = years[i]

\* the first year of a two-year session failed, the second was scraped and
\* its artifact written
C15_Witness ==
    /\ asn_pc = "done"
    /\ Len(years) = 2
    /\ \E k \in 1..Len(asn_printed) : asn_printed[k].year = years[1]
    /\ years[1] \notin asn_saved
    /\ years[2] \in asn_fetched
    /\ years[2] \in asn_saved

\* C16 (as claimed): a transient error on listing page n only skips page n:
\* the run goes on to request page n + 1.
C16_TransientErrorSkipsPage ==
    \A j \in TransientPages :
        (j = Len(asn_log) /\ asn_pc # "killed") =>
            /\ asn_pc = "page"
            /\ page_number = asn_log[j].window[1] + 1

\* C16 (as amended): a transient error on listing page n ends the run at
\* page n, as a NotFound does: it is the last request of the run, no listing
\* page after n and no detail page is requested, and scrape_year returns
\* without raising.
C16_TransientErrorStopsRun ==
    \A j \in TransientPages :
        /\ j = Len(asn_log)
        /\ asn_pc \in {"returned", "loop", "done", "killed"}
        /\ asn_error # "Exception"
        /\ page_number = asn_log[j].window[1]
        /\ ~asn_log[j].stop

\* page 1 failed with a transient error and the run returned, empty
C16_Witness ==
    /\ asn_pc = "returned"
    /\ page_number = 1
    /\ asn_response.tag = "TransientError"
    /\ all_accidents = <<>>

----------------------------------------------------------------------------
(* Properties of the detail-page parser *)

\* the rows of the table whose label is the known label of the k-th field
LabelRows(k) ==
    {i \in 1..Len(soup.rows) :
        soup.rows[i].cells >= 2 /\ soup.rows[i].caption = Keywords[k]}

\* C17 (as claimed): when _parse_accident_detail has returned the record of
\* a page with a table, a field whose label is in a row holds the value
\* extracted from a row with that label, and a field whose label is in no
\* row is absent; so a row with another label, which only contains a
\* keyword, neither sets nor overwrites a field.
C17_FieldsFromTheirLabels ==
    (prog = "parse" /\ pr_pc = "done" /\ soup.table) =>
        \A k \in 1..Len(Fields) :
            IF LabelRows(k) = {}
            THEN Fields[k] \notin DOMAIN pr_accident_data
            ELSE /\ Fields[k] \in DOMAIN pr_accident_data
                 /\ \E i \in LabelRows(k) :
                        pr_accident_data[Fields[k]] =
                            BranchValue(k, soup.rows[i], soup)

\* r is s without the blanks at its two ends
IsStripOf(r, s) ==
    \E i \in 1..(Len(s) + 1), j \in 0..Len(s) :
        /\ r = SubSeq(s, i, j)
        /\ \A m \in 1..(i - 1) : s[m] = " "
        /\ \A m \in (j + 1)..Len(s) : s[m] = " "
        /\ r # <<>> => (r[1] # " " /\ r[Len(r)] # " ")

\* r is what follows the last dash of s
IsLastSegmentOf(r, s) ==
    \E i \in 1..Len(s) :
        /\ s[i] = "-"
        /\ \A m \in (i + 1)..Len(s) : s[m] # "-"
        /\ r = SubSeq(s, i + 1, Len(s))

\* the country links of the location cell (the cell next to the first
\* 'Location:' caption) of the page
CountryLinks ==
    {soup.rows[i].link : i \in
        {i \in 1..Len(soup.rows) :
            /\ soup.rows[i].located
            /\ \A j \in 1..(i - 1) : ~soup.rows[j].located
            /\ soup.rows[i].link # NoLink
            /\ soup.rows[i].link.country}}

\* C18: _extract_country returns the text of the country link of the
\* location cell (without the blanks around it) when there is one;
\* otherwise, when the location text holds a dash, what follows its last
\* dash, trimmed; otherwise the location text, trimmed.
C18_LocationResolution ==
    (prog = "country" /\ pr_pc = "done") =>
        IF CountryLinks # {}
        THEN \E l \in CountryLinks : IsStripOf(country, l.text)
        ELSE IF \E i \in 1..Len(location_text) : location_text[i] = "-"
        THEN \E i \in 1..(Len(location_text) + 1) :
                 /\ IsLastSegmentOf(SubSeq(location_text, i, Len(location_text)),
                                    location_text)
                 /\ IsStripOf(country,
                              SubSeq(location_text, i, Len(location_text)))
        ELSE IsStripOf(country, location_text)

\* "x- y" without a country link resolved to "y"
C18_Witness ==
    /\ prog = "country"
    /\ pr_pc = "done"
    /\ CountryLinks = {}
    /\ location_text = <<"x", "-", " ", "y">>
    /\ country = <<"y">>

----------------------------------------------------------------------------
(* Properties of the API-source driver *)

\* the windows that are failed requests of this run
FailedEntries == {i \in 1..Len(nt_log) : nt_log[i].requested /\ ~nt_log[i].ok}

\* the windows of the configured range, as download_all bounds them
RangeOfRun ==
    {w \in (start_year..end_year) \X (1..December) :
        w[2] <= LastMonth(w[1], current_date)}

\* C8: download_month sends no request for a window whose artifact exists
\* and leaves the artifact alone; over all runs a month's artifact is
\* written at most once and keeps the content it was first given.
C8_ExistingArtifactSkipped ==
    /\ \A i \in 1..Len(nt_log) : nt_log[i].existed => ~nt_log[i].requested
    /\ \A w \in Windows :
           /\ nt_hist[w].writes <= 1
           /\ nt_hist[w].first # NoFile => nt_files[w] = nt_hist[w].first

\* a second run reached a window whose artifact the first run had written
C8_Witness ==
    /\ nt_run = 2
    /\ \E i \in 1..Len(nt_log) :
           /\ nt_log[i].existed
           /\ nt_files[nt_log[i].window].run = 1

\* C9: over all runs a month's artifact exists only if an export request
\* for the month succeeded; a month whose request failed in this run has no
\* artifact and a "Failed" line; and every visit of a month without
\* artifact, in whatever run, sends the request.
C9_ArtifactOnlyAfterSuccess ==
    /\ \A w \in Windows : nt_files[w] # NoFile => nt_hist[w].successes >= 1
    /\ \A i \in FailedEntries :
           /\ nt_files[nt_log[i].window] = NoFile
           /\ \E k \in 1..Len(nt_printed) :
                  nt_printed[k].failed = nt_log[i].window
    /\ \A i \in 1..Len(nt_log) : ~nt_log[i].existed => nt_log[i].requested

\* a month whose request failed in the first run is requested again in the
\* second
C9_Witness ==
    /\ nt_run = 2
    /\ \E i \in 1..Len(nt_log) :
           /\ nt_log[i].requested
           /\ nt_log[i].ok
           /\ nt_hist[nt_log[i].window].failures >= 1

\* C10: a failed export does not end download_all: the run ends only after
\* every window of its range was visited, and each failure is counted in
\* `failed` and has its "Failed" line.
C10_FailedMonthDoesNotAbort ==
    /\ total = Len(nt_log)
    /\ failed = Cardinality(FailedEntries)
    /\ successful = total - failed
    /\ Len(nt_printed) = failed
    /\ (nt_pc = "done" /\ nt_run > 0) =>
           {nt_log[i].window : i \in 1..Len(nt_log)} = RangeOfRun

\* a run that ended after a failed month, with later months visited
C10_Witness ==
    /\ nt_pc = "done"
    /\ failed = 1
    /\ \E i \in FailedEntries : i < Len(nt_log) /\ nt_log[Len(nt_log)].requested


\* the windows from January of start_year through the earlier of December
\* of end_year and the current calendar month
WindowsUpToNow ==
    {w \in (start_year..end_year) \X (1..December) : ~Before(current_date, w)}

\* C12 (as claimed): download_all visits exactly the windows from January
\* of start_year through the earlier of December of end_year and the current
\* calendar month: none later is ever visited, and a finished run has
\* visited every one of them.
C12_WindowsUpToCurrentMonth ==
    /\ \A i \in 1..Len(nt_log) : ~Before(current_date, nt_log[i].window)
    /\ (nt_pc = "done" /\ nt_run > 0) =>
           {nt_log[i].window : i \in 1..Len(nt_log)} = WindowsUpToNow

\* C14 (as claimed): in a run of either driver, every request after the
\* first is preceded by a delay applied since the request before it.
C14_DelayBeforeEveryRequest ==
    /\ \A j \in 1..Len(asn_log) : asn_log[j].delayed
    /\ \A j \in 1..Len(nt_log) :
           (nt_log[j].requested /\ \E i \in 1..(j - 1) : nt_log[i].requested)
               => nt_log[j].delayed

----------------------------------------------------------------------------
(* Properties of the staging loader *)

IsPrefix(a, b) == Len(a) <= Len(b) /\ \A i \in 1..Len(a) : a[i] = b[i]

RowSet(table) == {table[i] : i \in 1..Len(table)}

\* the records of file `file` of source s that carry a key
Keyed(s, file) ==
    {i \in 1..Len(file) :
        IF s = 1
        THEN file[i].url # NoUrl /\ file[i].url[Len(file[i].url)] # ""
        ELSE GetKey(s, file[i]) # NULL}

\* C3 (as claimed): an invocation that loads, for some source, the very file
\* the committed invocation before it loaded, and commits, leaves that
\* source's staging table with the same rows and the same row count.
C3_ReloadSameFileSameRows ==
    ld_pc = "done" =>
        \A s \in Sources :
            (ld_last[s] # NotRead /\ ld_files[s] = ld_last[s]) =>
                /\ Len(ld_committed[s]) = Len(ld_before[s])
                /\ RowSet(ld_committed[s]) = RowSet(ld_before[s])

\* C4: a staging table never holds two rows with the same (non-NULL)
\* source_unique_id, in the open transaction or committed; and once a load
\* of NTSB.json is committed, each cm_ntsbNum the file carries has exactly
\* one row, however many records of the file or of earlier loads carry it.
C4_OneRowPerSourceKey ==
    /\ \A s \in Sources : \A t \in {ld_tables[s], ld_committed[s]} :
           \A i, j \in 1..Len(t) :
               (t[i].id = t[j].id /\ t[i].id # NULL) => i = j
    /\ ld_pc = "done" =>
           \A i \in 1..Len(ld_files[2]) :
               ld_files[2][i].cm_ntsbNum # NULL =>
                   Cardinality(RowsOf(ld_committed[2],
                                      ld_files[2][i].cm_ntsbNum)) = 1

\* NTSB.json carried one cm_ntsbNum twice, a row with it was there before,
\* and the load was committed
C4_Witness ==
    /\ ld_pc = "done"
    /\ \E i, j \in 1..Len(ld_files[2]) :
           /\ i # j
           /\ ld_files[2][i].cm_ntsbNum # NULL
           /\ ld_files[2][i].cm_ntsbNum = ld_files[2][j].cm_ntsbNum
           /\ RowsOf(ld_before[2], ld_files[2][i].cm_ntsbNum) # {}

\* C5: first write wins. The rows a table held when the invocation started
\* are still there, unchanged, in the transaction and after commit; within a
\* batch the first record with a key gives the row its payload; and no
\* insert fails on a conflict.
C5_FirstWriteWins ==
    /\ ld_error # "UniqueViolation"
    /\ \A s \in Sources :
           /\ IsPrefix(ld_before[s], ld_tables[s])
           /\ IsPrefix(ld_before[s], ld_committed[s])
    /\ \A s \in Sources :
           (ld_files[s] # NotRead /\ ld_pc # "failed") =>
               \A i \in Keyed(s, ld_files[s]) :
                   LET id == SourceId(s, ld_files[s][i])
                       first == CHOOSE k \in Keyed(s, ld_files[s]) :
                                   /\ SourceId(s, ld_files[s][k]) = id
                                   /\ \A m \in Keyed(s, ld_files[s]) :
                                          SourceId(s, ld_files[s][m]) = id
                                              => k <= m
                   IN  \A r \in RowsOf(ld_tables[s], id) :
                           ld_tables[s][r].raw =
                               IF RowsOf(ld_before[s], id) # {}
                               THEN ld_before[s][CHOOSE b \in
                                        RowsOf(ld_before[s], id) : TRUE].raw
                               ELSE Dumps(ld_files[s][first])

\* a committed load of a record whose key was already there with another
\* payload
C5_Witness ==
    /\ ld_pc = "done"
    /\ ld_error = "none"
    /\ \E s \in {1, 2} : \E i \in Keyed(s, ld_files[s]) :
           \E b \in RowsOf(ld_before[s], SourceId(s, ld_files[s][i])) :
               /\ ld_before[s][b].raw # Dumps(ld_files[s][i])
               /\ ld_committed[s][b] = ld_before[s][b]

\* C6 (as claimed): a record without a usable key is skipped: no row is
\* ever inserted with a NULL or empty source_unique_id, no load raises
\* because of such a record, and the records that do carry a key are loaded.
C6_KeylessRecordsSkipped ==
    /\ \A s \in Sources : \A i \in 1..Len(ld_tables[s]) :
           ld_tables[s][i].id \notin {NULL, ""}
    /\ ld_error \notin {"AttributeError", "NotNullViolation"}
    /\ ld_pc = "done" =>
           \A s \in Sources : \A i \in Keyed(s, ld_files[s]) :
               RowsOf(ld_committed[s], SourceId(s, ld_files[s][i])) # {}

\* what a JSON file with content `data` contributes: an array each element,
\* an object with 'cases' each element of it, any other object itself
Contribution(data) ==
    IF data.kind = "list" \/ data.has_cases THEN data.items ELSE <<data>>

RECURSIVE RecordsBefore(_, _, _)
\* the number of records the first k-1 files of `files` contribute
RecordsBefore(files, dir, k) ==
    IF k <= 1 THEN 0
    ELSE RecordsBefore(files, dir, k - 1) + Len(Contribution(dir[files[k - 1]]))

\* every input file of the run holds a JSON array or a JSON object
InputsAreJson ==
    \A k \in 1..Len(json_files) : mg_before[json_files[k]].kind \in {"list", "dict"}

\* C19: when a run of the merge utility over JSON array and object files has
\* finished, the output file holds exactly the records the input files
\* contribute, file after file in file order (an array every element, an object
\* with 'cases' every element of it, another object itself); its length is
\* the sum of the per-file counts and is the total the utility prints
C19_MergeIsConcatenation ==
    (prog = "merge" /\ mg_pc = "done" /\ InputsAreJson) =>
        LET out == extracted_dir[OutputFile].items
            n == Len(json_files)
        IN  /\ extracted_dir[OutputFile].kind = "list"
            /\ Len(out) = RecordsBefore(json_files, mg_before, n + 1)
            /\ \A k \in 1..n :
                   LET part == Contribution(mg_before[json_files[k]])
                   IN  \A j \in 1..Len(part) :
                           out[RecordsBefore(json_files, mg_before, k) + j] = part[j]
            /\ mg_printed = Len(out)

\* a list of 3 and an object with a nested collection of 5 were merged into 8
C19_Witness ==
    /\ prog = "merge"
    /\ mg_pc = "done"
    /\ mg_before["2010_01_cases.json"] = JsonList(Cases("a", 3))
    /\ mg_before["2010_02_cases.json"] = JsonDict(TRUE, Cases("b", 5))
    /\ mg_before[OutputFile] = NoFile
    /\ Len(extracted_dir[OutputFile].items) = 8
    /\ mg_printed = 8

\* C20: when an invocation of the loader has committed, the count it printed
\* for each of the two keyed sources is the number of rows the load added to
\* the source's staging table; it is 0 when every key of the file was already
\* in the table
C20_ReportedCountIsInserted ==
    (prog = "load" /\ ld_pc = "done") =>
        \A s \in {1, 2} :
            ld_printed[s] = Len(ld_committed[s]) - Len(ld_before[s])

\* the fields a label can populate: those whose keyword it contains, but not
\* type for a label that also contains 'aircraft', and not fatalities for a
\* label that also contains 'other'
Candidates(caption) ==
    {k \in 1..Len(Keywords) :
        /\ Contains(caption, Keywords[k])
        /\ ~(Fields[k] = "type" /\ Contains(caption, "aircraft"))
        /\ ~(Fields[k] = "fatalities" /\ Contains(caption, "other"))}

\* the fields of the record that a step set or changed
Populated(old, new) ==
    {f \in DOMAIN new : f \notin DOMAIN old \/ new[f] # old[f]}

\* C21: a turn of the loop of _parse_accident_detail over a table row sets
\* at most one field of the record, and no other field than the first in
\* declaration order among those the row's label can populate (the label
\* contains its keyword; type is left out for a label containing 'aircraft',
\* fatalities for a label containing 'other'); a row of two cells with such
\* a field leaves it in the record, and no field is ever removed
C21_FirstMatchingLabelWins ==
    [][ParseDetailRow =>
         LET row == soup.rows[row_i]
             first == {k \in Candidates(row.caption) :
                          \A m \in Candidates(row.caption) : k <= m}
         IN  /\ DOMAIN pr_accident_data \subseteq DOMAIN pr_accident_data'
             /\ Cardinality(Populated(pr_accident_data, pr_accident_data')) <= 1
             /\ Populated(pr_accident_data, pr_accident_data')
                    \subseteq {Fields[k] : k \in first}
             /\ row.cells >= 2 =>
                    \A k \in first : Fields[k] \in DOMAIN pr_accident_data'
       ]_vars

\* the row 'Date/Time:' has set date and not time; the row 'Aircraft type:'
\* after it has set nothing
C21_Witness ==
    /\ prog = "parse"
    /\ pr_pc = "rows"
    /\ row_i = 3
    /\ soup.rows[1].caption = "date/time"
    /\ soup.rows[1].value # <<>>
    /\ soup.rows[2].caption = "aircraft type"
    /\ DOMAIN pr_accident_data = {"url", "date"}
    /\ pr_accident_data["date"] = Str(soup.rows[1].value)

----------------------------------------------------------------------------
(* Properties of the loader's transaction *)

\* the sources whose load has been called in the invocation under way
Called == {s \in Sources : ld_files[s] # NotRead}

\* C22: in an invocation of the loader the loads are called in the order
\* source 1, source 2, source 3; the committed tables change only in the step
\* from "commit" to "done", which is taken after the three loads have
\* returned without an error and at most once in an invocation; until then
\* the committed tables are those the invocation started with, and they stay
\* so when a load raises
C22_CommitOnceAfterAllLoads ==
    /\ [](prog = "load" =>
            /\ Called \in {{}, {1}, {1, 2}, {1, 2, 3}}
            /\ ld_pc \in {"source1", "source2", "source3", "commit", "failed"}
                   => ld_committed = ld_before
            /\ ld_pc \in {"commit", "done"} /\ ld_run > 0
                   => (Called = Sources /\ ld_error = "none")
            /\ ld_error # "none" => (ld_pc = "failed" /\ ld_committed = ld_before))
    /\ [][/\ ld_committed' # ld_committed =>
               /\ ld_pc = "commit" /\ ld_pc' = "done"
               /\ Called = Sources /\ ld_error = "none"
               /\ ld_committed = ld_before
               /\ ld_committed' = ld_tables
          /\ (ld_pc' = "done" /\ ld_pc # "done") => (ld_pc = "commit" /\ ld_run' = ld_run)
          /\ (ld_pc = "done" /\ ld_run' = ld_run) => ld_committed' = ld_committed
          /\ ld_pc = "failed" => ld_committed' = ld_committed
       ]_vars

\* an invocation has committed rows of sources 1 and 2 after its three loads
C22_Witness ==
    /\ prog = "load"
    /\ ld_pc = "done"
    /\ Called = Sources
    /\ Len(ld_committed[1]) > Len(ld_before[1])
    /\ Len(ld_committed[2]) > Len(ld_before[2])

\* the source whose load raised, when the invocation has failed
FailingSource == CHOOSE s \in Called : \A t \in Called : t <= s

\* the table of source s as its batch of this invocation left it inside the
\* transaction
AfterBatch(s) ==
    ExecuteBatch(ld_before[s], BuildRows(s, ld_files[s]), Len(ld_files[s]),
                 key_mode).table

\* a database error ended the batch of a source that is not the first one
FailedInLaterBatch ==
    /\ prog = "load"
    /\ ld_pc = "failed"
    /\ ld_error \in {"OperationalError", "NotNullViolation"}
    /\ FailingSource > 1

\* C23 (as claimed): the loads are not atomic across sources: when a
\* database failure ends the batch of a later source, the batches of the
\* earlier sources of the invocation are not rolled back, so the rows they
\* inserted are durable.
C23_EarlierBatchesSurviveFailure ==
    FailedInLaterBatch =>
        \A s \in 1..(FailingSource - 1) : ld_committed[s] = AfterBatch(s)

\* C23 (amended): when a database failure ends the batch of a later source,
\* no row of the invocation is durable, neither of the failing source nor of
\* the sources loaded before it: every committed table is the one the
\* invocation started with.
C23_FailedInvocationIsAtomic ==
    FailedInLaterBatch =>
        \A s \in Sources :
            /\ ld_committed[s] = ld_before[s]
            /\ ld_tables[s] = ld_before[s]

\* the database failed during the batch of source 2 after the batch of
\* source 1 had inserted a row
C23_Witness ==
    /\ FailedInLaterBatch
    /\ FailingSource = 2
    /\ ld_error = "OperationalError"
    /\ Len(AfterBatch(1)) > Len(ld_before[1])

----------------------------------------------------------------------------
(* Properties of a second run of the merge utility *)

\* the files a run reads
InputFiles == {json_files[k] : k \in 1..Len(json_files)}

\* C24: a run of the merge utility that follows another one over the same
\* directory does not read the output file of the earlier run, and when it
\* has finished the merged record list is the one the earlier run wrote
C24_MergeRerunIsIdempotent ==
    (prog = "merge" /\ mg_run >= 2 /\ mg_pc \in {"loop", "done"}) =>
        /\ OutputFile \notin InputFiles
        /\ mg_pc = "done" => extracted_dir[OutputFile] = mg_before[OutputFile]

====
